---- MODULE Spec2Model ----
(***************************************************************************)
(* A model of tdb.py, the reader and writer of the Tdb "Text DataBase"     *)
(* format.  Texts are TLA+ strings, read character by character as the     *)
(* Python code reads them.  One action is one API call (Tdb.loads,         *)
(* Tdb.dumps) or one iteration of a loop of the reader (_read_tdb,         *)
(* _read_records); the helpers are operators that return what the Python   *)
(* function returns, or the exception it raises.                           *)
(***************************************************************************)
EXTENDS Integers, Sequences, FiniteSets, TLC

VARIABLES
    self_tables,  \* Tdb.tables of the one Tdb object
    pc,           \* "idle" | "read_tdb" | "read_records"
    outcome,      \* how the last API call ended (or that one is running)
    nloads,       \* loads calls started so far
    source,       \* the text argument of the running (or last) Tdb.loads
    text,         \* _read_tdb / _read_records: the text still to read
    tables,       \* _read_tdb: the dict being built, in insertion order
    table,        \* _read_tdb: index in tables of the current Table, 0 = None
    lino,         \* the line counter
    record,       \* _read_records: <<>> is None, <<r>> the record r in progress
    old_column,   \* _read_records
    column,       \* _read_records
    columns,      \* _read_records
    kind          \* _read_records

vars == <<self_tables, pc, outcome, nloads, source, text, tables, table,
          lino, record, old_column, column, columns, kind>>

(***************************************************************************)
(* Python strings.                                                         *)
(***************************************************************************)
\* s[i], 0-based ("" past the end, as the slice s[i:i+1])
At(s, i) == IF i + 1 <= Len(s) THEN SubSeq(s, i + 1, i + 1) ELSE ""
\* s[i:]
From(s, i) == SubSeq(s, i + 1, Len(s))
\* s[:i]
Upto(s, i) == SubSeq(s, 1, i)
\* s[i:j]
Slice(s, i, j) == SubSeq(s, i + 1, j)

Digits == {"0", "1", "2", "3", "4", "5", "6", "7", "8", "9"}
\* c in valid, valid a string of characters
CharIn(c, valid) == \E i \in 1..Len(valid) : SubSeq(valid, i, i) = c
\* str.isspace() of one character, on the whitespace ASCII has
IsSpace(c) == c \in {" ", "\t", "\n", "\r", "\f"}
\* str.find(what) for a one-character what: the 0-based index, or -1
StrFind(s, what) ==
    IF \E i \in 1..Len(s) : SubSeq(s, i, i) = what
    THEN (CHOOSE i \in 1..Len(s) :
              /\ SubSeq(s, i, i) = what
              /\ \A j \in 1..(i - 1) : SubSeq(s, j, j) # what) - 1
    ELSE -1
\* str.count(what) for a one-character what
StrCount(s, what) == Cardinality({i \in 1..Len(s) : SubSeq(s, i, i) = what})
\* str.split(): the maximal runs of non-whitespace characters
RECURSIVE SplitFrom(_, _, _)
SplitFrom(s, i, cur) ==
    IF i > Len(s) THEN (IF cur = "" THEN <<>> ELSE <<cur>>)
    ELSE IF IsSpace(SubSeq(s, i, i))
         THEN (IF cur = "" THEN <<>> ELSE <<cur>>) \o SplitFrom(s, i + 1, "")
         ELSE SplitFrom(s, i + 1, cur \o SubSeq(s, i, i))
StrSplit(s) == SplitFrom(s, 1, "")
\* str.replace(old, new)
RECURSIVE StrReplace(_, _, _)
StrReplace(s, old, new) ==
    IF Len(s) < Len(old) THEN s
    ELSE IF Upto(s, Len(old)) = old
         THEN new \o StrReplace(From(s, Len(old)), old, new)
         ELSE Upto(s, 1) \o StrReplace(From(s, 1), old, new)
\* repr() of a string with no quote, backslash or control character in it
Repr(s) == "'" \o s \o "'"

(***************************************************************************)
(* Exceptions.  An Error carries the message the code formats.             *)
(***************************************************************************)
NoExc == [type |-> "none", msg |-> ""]
Exc(type, msg) == [type |-> type, msg |-> msg]
\* class Error(Exception), raised as Error(f'{lino}#...')
Error(lno, message) == Exc("Error", ToString(lno) \o "#" \o message)

(***************************************************************************)
(* The scanning helpers.                                                   *)
(***************************************************************************)
\* _skip_ws(text, lino): [text, lino]
RECURSIVE SkipWsFrom(_, _, _)
SkipWsFrom(txt, end, lno) ==
    IF end < Len(txt)
    THEN LET c == At(txt, end)
             lno2 == IF c = "\n" THEN lno + 1 ELSE lno
         IN IF IsSpace(c) THEN SkipWsFrom(txt, end + 1, lno2)
            ELSE [text |-> From(txt, end), lino |-> lno2]
    ELSE [text |-> txt, lino |-> lno]
_skip_ws(txt, lno) == SkipWsFrom(txt, 0, lno)

\* _find(text, what, message, lino): [exc, found, text, lino]
_find(txt, what, message, lno) ==
    LET end == StrFind(txt, what) IN
    IF end = -1
    THEN [exc |-> Error(lno, message), found |-> "", text |-> txt, lino |-> lno]
    ELSE [exc |-> NoExc, found |-> Upto(txt, end), text |-> From(txt, end + 1),
          lino |-> lno + StrCount(Upto(txt, end), "\n")]

\* _scan(text, valid, lino): [exc, text, found, lino]
RECURSIVE ScanFrom(_, _, _, _)
ScanFrom(txt, valid, end, lno) ==
    IF end < Len(txt)
    THEN IF ~CharIn(At(txt, end), valid)
         THEN [exc |-> NoExc, text |-> From(txt, end), found |-> Upto(txt, end),
               lino |-> lno]
         ELSE ScanFrom(txt, valid, end + 1, lno)
    ELSE [exc |-> Error(lno, "unexpected end of data"), text |-> txt,
          found |-> "", lino |-> lno]
_scan(txt, valid, lno) ==
    LET s == _skip_ws(txt, lno) IN ScanFrom(s.text, valid, 0, s.lino)

(***************************************************************************)
(* Table and MetaField.  A Table is [name, fields_meta, records]; the name *)
(* None (a header with no token at all) is the empty string, which no      *)
(* token of split() is.                                                    *)
(***************************************************************************)
None == ""
MetaField(name, knd) == [name |-> name, kind |-> knd]
Table == [name |-> None, fields_meta |-> <<>>, records |-> <<>>]
\* Table.columns
Columns(t) == Len(t.fields_meta)
\* Table.append(record)
TableAppend(t, r) == [t EXCEPT !.records = Append(@, r)]

\* _read_meta's loop over enumerate(found.split()), from part i on
RECURSIVE MetaParts(_, _, _, _)
MetaParts(parts, i, field_name, t) ==
    IF i >= Len(parts) THEN t
    ELSE LET part == parts[i + 1] IN
         IF i = 0 THEN MetaParts(parts, i + 1, field_name, [t EXCEPT !.name = part])
         ELSE IF i % 2 # 0 THEN MetaParts(parts, i + 1, part, t)
         ELSE MetaParts(parts, i + 1, field_name,
                        [t EXCEPT !.fields_meta = Append(@, MetaField(field_name, part))])

\* _read_meta(text, lino): [exc, text, table, lino]
_read_meta(txt, lno) ==
    LET f == _find(txt, "%", "expected to find \"%\"", lno) IN
    IF f.exc # NoExc
    THEN [exc |-> f.exc, text |-> txt, table |-> Table, lino |-> lno]
    ELSE [exc |-> NoExc, text |-> f.text,
          table |-> MetaParts(StrSplit(f.found), 0, None, Table),
          lino |-> f.lino + 1]

(***************************************************************************)
(* Values.  A value is [k, v]: k the Python type ("None" for a field not   *)
(* yet set), v its content.  A date is <<year, month, day>>, a datetime    *)
(* <<year, month, day, hour, minute, second>>, a bytes the sequence of its *)
(* bytes, a float <<sign, digits, exponent>>: sign * digits * 10^exponent  *)
(* with digits a digit string stripped of leading and trailing zeros.      *)
(***************************************************************************)
Val(k, v) == [k |-> k, v |-> v]
NoneVal == Val("None", 0)

\* the character U+0004, written as itself between the quotes
EOT == ""
BYTES_SENTINAL == Val("bytes", <<4>>)
DATE_SENTINAL == Val("date", <<1808, 8, 8>>)
DATETIME_SENTINAL == Val("datetime", <<1808, 8, 8, 8, 8, 8>>)
INT_SENTINAL == Val("int", -1808080808)
REAL_SENTINAL == Val("real", <<-1, "18080808080808", -4>>)
STR_SENTINAL == Val("str", EOT)

\* Table.RecordClass(): a record with every field None.  The editabletuple
\* container is taken to accept any field names.
RecordClass(t) == [i \in 1..Columns(t) |-> NoneVal]
\* record[column] = value
SetItem(r, col, value) == [r EXCEPT ![col + 1] = value]

DigitVal(c) == CHOOSE d \in 0..9 : ToString(d) = c
AllDigits(s) == \A i \in 1..Len(s) : SubSeq(s, i, i) \in Digits
RECURSIVE NatOf(_)
NatOf(s) == IF s = "" THEN 0
            ELSE NatOf(Upto(s, Len(s) - 1)) * 10 + DigitVal(At(s, Len(s) - 1))

\* int(found), found made of the characters -+0123456789: [exc, value]
PyInt(found) ==
    LET signed == At(found, 0) \in {"+", "-"}
        body == IF signed THEN From(found, 1) ELSE found
    IN IF body # "" /\ AllDigits(body)
       THEN [exc |-> NoExc,
             value |-> Val("int", IF At(found, 0) = "-" THEN 0 - NatOf(body)
                                  ELSE NatOf(body))]
       ELSE [exc |-> Exc("ValueError",
                         "invalid literal for int() with base 10: " \o Repr(found)),
             value |-> NoneVal]

RECURSIVE StripLeadingZeros(_)
StripLeadingZeros(s) ==
    IF At(s, 0) = "0" THEN StripLeadingZeros(From(s, 1)) ELSE s
RECURSIVE StripTrailingZeros(_)
StripTrailingZeros(s) ==
    IF s # "" /\ At(s, Len(s) - 1) = "0"
    THEN StripTrailingZeros(Upto(s, Len(s) - 1)) ELSE s
\* the length of the longest prefix of s made of digits
RECURSIVE DigitRun(_)
DigitRun(s) == IF At(s, 0) \in Digits THEN 1 + DigitRun(From(s, 1)) ELSE 0

\* float(found), found made of the characters -+0123456789.eE: [exc, value].
\* The value is exact, as float() is up to 15 significant digits and
\* exponents within the range of a double.  The literal is read in stages:
\* sign, integer digits, fraction, exponent.
FloatError(found) ==
    [exc |-> Exc("ValueError", "could not convert string to float: " \o Repr(found)),
     value |-> NoneVal]
\* the value sign * mant * 10^exp of a literal with mantissa digits mant
FloatValue(sign, mant, exp) ==
    IF StripTrailingZeros(mant) = "" THEN Val("real", <<1, "", 0>>)
    ELSE Val("real", <<sign, StripTrailingZeros(mant),
                       exp + (Len(mant) - Len(StripTrailingZeros(mant)))>>)
\* edigits: what follows the e and its sign
FloatExpDigits(found, sign, ipart, fpart, esign, edigits) ==
    IF edigits = "" \/ ~AllDigits(edigits) THEN FloatError(found)
    ELSE [exc |-> NoExc,
          value |-> FloatValue(sign, StripLeadingZeros(ipart \o fpart),
                               esign * NatOf(edigits) - Len(fpart))]
\* rest: what follows the mantissa
FloatExponent(found, sign, ipart, fpart, rest) ==
    IF ipart \o fpart = "" THEN FloatError(found)
    ELSE IF rest = ""
    THEN [exc |-> NoExc,
          value |-> FloatValue(sign, StripLeadingZeros(ipart \o fpart), 0 - Len(fpart))]
    ELSE IF At(rest, 0) \notin {"e", "E"} THEN FloatError(found)
    ELSE IF At(rest, 1) \in {"+", "-"}
    THEN FloatExpDigits(found, sign, ipart, fpart,
                        IF At(rest, 1) = "-" THEN -1 ELSE 1, From(rest, 2))
    ELSE FloatExpDigits(found, sign, ipart, fpart, 1, From(rest, 1))
\* rest: what follows the integer digits
FloatFraction(found, sign, ipart, rest) ==
    IF At(rest, 0) = "."
    THEN FloatExponent(found, sign, ipart, Slice(rest, 1, 1 + DigitRun(From(rest, 1))),
                       From(rest, 1 + DigitRun(From(rest, 1))))
    ELSE FloatExponent(found, sign, ipart, "", rest)
\* body: what follows the sign
FloatMantissa(found, sign, body) ==
    FloatFraction(found, sign, Upto(body, DigitRun(body)), From(body, DigitRun(body)))
PyFloat(found) ==
    IF At(found, 0) \in {"+", "-"}
    THEN FloatMantissa(found, IF At(found, 0) = "-" THEN -1 ELSE 1, From(found, 1))
    ELSE FloatMantissa(found, 1, found)

IsLeap(y) == y % 4 = 0 /\ (y % 100 # 0 \/ y % 400 = 0)
DaysInMonth(y, m) ==
    IF m = 2 THEN (IF IsLeap(y) THEN 29 ELSE 28)
    ELSE IF m \in {4, 6, 9, 11} THEN 30 ELSE 31
\* the range checks of the date constructor: "" when y-m-d is a date
DateRangeError(y, m, d) ==
    IF y < 1 THEN "year " \o ToString(y) \o " is out of range"
    ELSE IF m < 1 \/ m > 12 THEN "month must be in 1..12"
    ELSE IF d < 1 \/ d > DaysInMonth(y, m) THEN "day is out of range for month"
    ELSE ""
InvalidIso(found) == Exc("ValueError", "Invalid isoformat string: " \o Repr(found))

\* datetime.date.fromisoformat(found), found made of the characters
\* -0123456789 (Python 3.11 on: YYYY-MM-DD and YYYYMMDD): [exc, value]
PyDate(found) ==
    LET ext == Len(found) = 10 /\ At(found, 4) = "-" /\ At(found, 7) = "-"
                 /\ AllDigits(Upto(found, 4)) /\ AllDigits(Slice(found, 5, 7))
                 /\ AllDigits(Slice(found, 8, 10))
        basic == Len(found) = 8 /\ AllDigits(found)
        y == NatOf(Upto(found, 4))
        m == IF ext THEN NatOf(Slice(found, 5, 7)) ELSE NatOf(Slice(found, 4, 6))
        d == IF ext THEN NatOf(Slice(found, 8, 10)) ELSE NatOf(Slice(found, 6, 8))
    IN IF ~(ext \/ basic) THEN [exc |-> InvalidIso(found), value |-> NoneVal]
       ELSE IF DateRangeError(y, m, d) # ""
            THEN [exc |-> Exc("ValueError", DateRangeError(y, m, d)),
                  value |-> NoneVal]
            ELSE [exc |-> NoExc, value |-> Val("date", <<y, m, d>>)]

\* the range checks of the time fields: "" when h:m:s is a time of day
TimeRangeError(h, m, s) ==
    IF h > 23 THEN "hour must be in 0..23"
    ELSE IF m > 59 THEN "minute must be in 0..59"
    ELSE IF s > 59 THEN "second must be in 0..59"
    ELSE ""

\* datetime.datetime.fromisoformat(found), found made of the characters
\* -0123456789T: : [exc, value].  Modelled on the extended format
\* YYYY-MM-DD, alone or followed by one separator character and HH, HH:MM
\* or HH:MM:SS; the basic formats, fractions and offsets that Python 3.11
\* also reads are rejected here.
PyDateTime(found) ==
    LET dpart == Upto(found, 10)
        ext == Len(found) >= 10 /\ At(found, 4) = "-" /\ At(found, 7) = "-"
                 /\ AllDigits(Upto(found, 4)) /\ AllDigits(Slice(found, 5, 7))
                 /\ AllDigits(Slice(found, 8, 10))
        tpart == From(found, 11)
        tok == \/ Len(found) = 10
               \/ /\ Len(tpart) \in {2, 5, 8}
                  /\ AllDigits(Upto(tpart, 2))
                  /\ Len(tpart) >= 5 => At(tpart, 2) = ":" /\ AllDigits(Slice(tpart, 3, 5))
                  /\ Len(tpart) >= 8 => At(tpart, 5) = ":" /\ AllDigits(Slice(tpart, 6, 8))
        y == NatOf(Upto(found, 4))
        m == NatOf(Slice(found, 5, 7))
        d == NatOf(Slice(found, 8, 10))
        hh == IF Len(tpart) >= 2 THEN NatOf(Upto(tpart, 2)) ELSE 0
        mm == IF Len(tpart) >= 5 THEN NatOf(Slice(tpart, 3, 5)) ELSE 0
        ss == IF Len(tpart) >= 8 THEN NatOf(Slice(tpart, 6, 8)) ELSE 0
    IN IF ~(ext /\ tok) THEN [exc |-> InvalidIso(found), value |-> NoneVal]
       ELSE IF DateRangeError(y, m, d) # ""
            THEN [exc |-> Exc("ValueError", DateRangeError(y, m, d)),
                  value |-> NoneVal]
       ELSE IF TimeRangeError(hh, mm, ss) # ""
            THEN [exc |-> Exc("ValueError", TimeRangeError(hh, mm, ss)),
                  value |-> NoneVal]
            ELSE [exc |-> NoExc, value |-> Val("datetime", <<y, m, d, hh, mm, ss>>)]

HexVal(c) ==
    IF StrFind("0123456789abcdef", c) >= 0 THEN StrFind("0123456789abcdef", c)
    ELSE StrFind("0123456789ABCDEF", c)
IsHex(c) == c # "" /\ HexVal(c) >= 0
\* bytes.fromhex(found): whitespace is skipped between bytes, each byte is
\* two hex digits: [exc, value]
RECURSIVE FromHexAt(_, _, _)
FromHexAt(s, i, acc) ==
    IF i >= Len(s) THEN [exc |-> NoExc, value |-> Val("bytes", acc)]
    ELSE IF IsSpace(At(s, i)) THEN FromHexAt(s, i + 1, acc)
    ELSE IF ~IsHex(At(s, i))
         THEN [exc |-> Exc("ValueError",
                   "non-hexadecimal number found in fromhex() arg at position "
                       \o ToString(i)),
               value |-> NoneVal]
    ELSE IF ~IsHex(At(s, i + 1))
         THEN [exc |-> Exc("ValueError",
                   "non-hexadecimal number found in fromhex() arg at position "
                       \o ToString(i + 1)),
               value |-> NoneVal]
    ELSE FromHexAt(s, i + 2, Append(acc, 16 * HexVal(At(s, i)) + HexVal(At(s, i + 1))))
PyFromHex(found) == FromHexAt(found, 0, <<>>)

\* xml.sax.saxutils.unescape(found)
unescape(found) ==
    StrReplace(StrReplace(StrReplace(found, "&lt;", "<"), "&gt;", ">"), "&amp;", "&")

(***************************************************************************)
(* The handlers of _read_records.  Each returns the exception it raises    *)
(* (NoExc when none) and what it returns or assigns.                       *)
(***************************************************************************)
\* mutant of _advance: the column moves on by two
_advance_two_columns(txt, col) == [text |-> From(txt, 1), column |-> col + 2]
\* mutant of _advance: the character is left in the text
_advance_no_consume(txt, col) == [text |-> txt, column |-> col + 1]
\* _advance(text, column): [text, column]
_advance(txt, col) == [text |-> From(txt, 1), column |-> col + 1]

\* mutant of _handle_sentinel: the test for bool is missing, and a bool
\* column falls to the last branch as any other kind does
_handle_sentinel_no_bool_test(knd, r, col, lno) ==
    IF knd = "bytes" THEN [exc |-> NoExc, record |-> SetItem(r, col, BYTES_SENTINAL)]
    ELSE IF knd = "date" THEN [exc |-> NoExc, record |-> SetItem(r, col, DATE_SENTINAL)]
    ELSE IF knd = "datetime"
         THEN [exc |-> NoExc, record |-> SetItem(r, col, DATETIME_SENTINAL)]
    ELSE IF knd = "int" THEN [exc |-> NoExc, record |-> SetItem(r, col, INT_SENTINAL)]
    ELSE IF knd = "real" THEN [exc |-> NoExc, record |-> SetItem(r, col, REAL_SENTINAL)]
    ELSE [exc |-> NoExc, record |-> SetItem(r, col, STR_SENTINAL)]
\* _handle_sentinel(kind, record, column, lino): [exc, record]
_handle_sentinel(knd, r, col, lno) ==
    IF knd = "bool"
    THEN [exc |-> Error(lno, "bool fields don't allow sentinals"), record |-> r]
    ELSE IF knd = "bytes" THEN [exc |-> NoExc, record |-> SetItem(r, col, BYTES_SENTINAL)]
    ELSE IF knd = "date" THEN [exc |-> NoExc, record |-> SetItem(r, col, DATE_SENTINAL)]
    ELSE IF knd = "datetime"
         THEN [exc |-> NoExc, record |-> SetItem(r, col, DATETIME_SENTINAL)]
    ELSE IF knd = "int" THEN [exc |-> NoExc, record |-> SetItem(r, col, INT_SENTINAL)]
    ELSE IF knd = "real" THEN [exc |-> NoExc, record |-> SetItem(r, col, REAL_SENTINAL)]
    ELSE [exc |-> NoExc, record |-> SetItem(r, col, STR_SENTINAL)]

\* _handle_bool(kind, value, record, column, lino): [exc, record]
_handle_bool(knd, value, r, col, lno) ==
    IF knd # "bool"
    THEN [exc |-> Error(lno, "expected type " \o knd \o ", got a bool"), record |-> r]
    ELSE [exc |-> NoExc, record |-> SetItem(r, col, Val("bool", value))]

\* what a handler that reads a token returns: [exc, text, lino, record]
Raised(exc, txt, lno, r) == [exc |-> exc, text |-> txt, lino |-> lno, record |-> r]
Returned(txt, lno, r) == [exc |-> NoExc, text |-> txt, lino |-> lno, record |-> r]

\* _handle_bytes(kind, text, record, column, lino)
_handle_bytes(knd, txt, r, col, lno) ==
    IF knd # "bytes"
    THEN Raised(Error(lno, "expected type " \o knd \o ", got a bytes"), txt, lno, r)
    ELSE LET f == _find(txt, ")", "expected to find \")\"", lno) IN
         IF f.exc # NoExc THEN Raised(f.exc, txt, lno, r)
         ELSE LET b == PyFromHex(f.found) IN
              IF b.exc # NoExc THEN Raised(b.exc, f.text, f.lino, r)
              ELSE Returned(f.text, f.lino, SetItem(r, col, b.value))

\* _handle_str(kind, text, record, column, lino)
_handle_str(knd, txt, r, col, lno) ==
    IF knd # "str"
    THEN Raised(Error(lno, "expected type " \o knd \o ", got a str"), txt, lno, r)
    ELSE LET f == _find(txt, ">", "expected to find \">\"", lno) IN
         IF f.exc # NoExc THEN Raised(f.exc, txt, lno, r)
         ELSE Returned(f.text, f.lino, SetItem(r, col, Val("str", unescape(f.found))))

\* the body the four number handlers share: scan the token, convert it, and
\* turn a ValueError into an Error
HandleNumber(s, conv, what, r, col) ==
    IF s.exc # NoExc THEN Raised(s.exc, s.text, s.lino, r)
    ELSE IF conv.exc # NoExc
         THEN Raised(Error(s.lino, "invalid " \o what \o ": " \o Repr(s.found) \o ": "
                                       \o conv.exc.msg),
                     s.text, s.lino, r)
         ELSE Returned(s.text, s.lino, SetItem(r, col, conv.value))

\* _handle_int(text, record, column, lino)
_handle_int(txt, r, col, lno) ==
    LET s == _scan(txt, "-+0123456789", lno) IN
    HandleNumber(s, PyInt(s.found), "int", r, col)

\* _handle_real(text, record, column, lino)
_handle_real(txt, r, col, lno) ==
    LET s == _scan(txt, "-+0123456789.eE", lno) IN
    HandleNumber(s, PyFloat(s.found), "real", r, col)

\* _handle_date(text, record, column, lino)
_handle_date(txt, r, col, lno) ==
    LET s == _scan(txt, "-0123456789", lno) IN
    HandleNumber(s, PyDate(s.found), "date", r, col)

\* _handle_datetime(text, record, column, lino)
_handle_datetime(txt, r, col, lno) ==
    LET s == _scan(txt, "-0123456789T:", lno) IN
    HandleNumber(s, PyDateTime(s.found), "datetime", r, col)

(***************************************************************************)
(* One iteration of the loop of _read_records.                             *)
(***************************************************************************)
\* mutant of IncompleteRecord: the upper bound of the test is off by one
IncompleteRecordOffByOne(col, cols) == 0 < col /\ col < cols - 1
\* the test of the "]" branch: the record in progress is incomplete
IncompleteRecord(col, cols) == 0 < col /\ col < cols

\* what the dispatch on the character c = text[0] does to the locals:
\* [exc, ret, text, lino, record, column]; ret is TRUE when the function
\* returns (the "]" branch)
Stay(h, col) ==
    [exc |-> h.exc, ret |-> FALSE, text |-> h.text, lino |-> h.lino,
     record |-> h.record, column |-> col]
Dispatch(c, knd, txt, r, col, cols, lno) ==
    IF c = "\n"
    THEN Stay(Returned(From(txt, 1), lno + 1, r), col)
    ELSE IF CharIn(c, " \t\r")
    THEN Stay(Returned(From(txt, 1), lno, r), col)
    ELSE IF c = "!"
    THEN LET h == _handle_sentinel(knd, r, col, lno)
             a == _advance(txt, col)
         IN IF h.exc # NoExc THEN Stay(Raised(h.exc, txt, lno, r), col)
            ELSE Stay(Returned(a.text, lno, h.record), a.column)
    ELSE IF CharIn(c, "FfNn")
    THEN LET h == _handle_bool(knd, FALSE, r, col, lno)
             a == _advance(txt, col)
         IN IF h.exc # NoExc THEN Stay(Raised(h.exc, txt, lno, r), col)
            ELSE Stay(Returned(a.text, lno, h.record), a.column)
    ELSE IF CharIn(c, "TtYy")
    THEN LET h == _handle_bool(knd, TRUE, r, col, lno)
             a == _advance(txt, col)
         IN IF h.exc # NoExc THEN Stay(Raised(h.exc, txt, lno, r), col)
            ELSE Stay(Returned(a.text, lno, h.record), a.column)
    ELSE IF c = "("
    THEN LET h == _handle_bytes(knd, From(txt, 1), r, col, lno)
         IN Stay(h, IF h.exc # NoExc THEN col ELSE col + 1)
    ELSE IF c = "<"
    THEN LET h == _handle_str(knd, From(txt, 1), r, col, lno)
         IN Stay(h, IF h.exc # NoExc THEN col ELSE col + 1)
    ELSE IF c = "-"
    THEN LET h == IF knd = "int" THEN _handle_int(txt, r, col, lno)
                  ELSE IF knd = "real" THEN _handle_real(txt, r, col, lno)
                  ELSE Raised(Error(lno, "expected an " \o knd), txt, lno, r)
         IN Stay(h, IF h.exc # NoExc THEN col ELSE col + 1)
    ELSE IF CharIn(c, "0123456789")
    THEN LET h == IF knd = "int" THEN _handle_int(txt, r, col, lno)
                  ELSE IF knd = "real" THEN _handle_real(txt, r, col, lno)
                  ELSE IF knd = "date" THEN _handle_date(txt, r, col, lno)
                  ELSE IF knd = "datetime" THEN _handle_datetime(txt, r, col, lno)
                  ELSE Raised(Error(lno, "expected an " \o knd), txt, lno, r)
         IN Stay(h, IF h.exc # NoExc THEN col ELSE col + 1)
    ELSE IF c = "]"
    THEN IF IncompleteRecord(col, cols)
         THEN Stay(Raised(Error(lno, "incomplete record " \o ToString(col + 1) \o "/"
                                         \o ToString(cols) \o " fields"),
                          txt, lno, r), col)
         ELSE LET w == _skip_ws(From(txt, 1), lno)
              IN [exc |-> NoExc, ret |-> TRUE, text |-> w.text, lino |-> w.lino,
                  record |-> r, column |-> col]
    ELSE Stay(Raised(Error(lno, "invalid character " \o Repr(c)), txt, lno, r), col)

(***************************************************************************)
(* The dict of _read_tdb, kept as the sequence of its values in insertion  *)
(* order, each under the key that is its name.                             *)
(***************************************************************************)
\* the index of key name, 0 when the dict has no such key
DictIndex(d, name) ==
    IF \E i \in 1..Len(d) : d[i].name = name
    THEN CHOOSE i \in 1..Len(d) : d[i].name = name
    ELSE 0
\* mutant of DictSet: an old key is deleted and the key put last
DictSetMoveToEnd(d, t) ==
    Append(SelectSeq(d, LAMBDA e : e.name # t.name), t)
\* mutant of DictSet: under an old key the table takes the new schema and
\* keeps the records it has
DictSetKeepRecords(d, t) ==
    IF DictIndex(d, t.name) = 0 THEN Append(d, t)
    ELSE [d EXCEPT ![DictIndex(d, t.name)] =
                 [t EXCEPT !.records = d[DictIndex(d, t.name)].records]]
\* d[t.name] = t: a new key goes last, an old key keeps its place
DictSet(d, t) ==
    IF DictIndex(d, t.name) = 0 THEN Append(d, t)
    ELSE [d EXCEPT ![DictIndex(d, t.name)] = t]

(***************************************************************************)
(* The writer.                                                             *)
(***************************************************************************)
\* _write_tdb(stream, tables, decimals): what it writes to the stream
_write_tdb(tbls, decimals) == ""

\* the positional parameters Tdb.dump takes (self, filename_or_filelike);
\* decimals is keyword-only
DumpPositional == 2

\* Tdb.dump(stream, decimals=decimals) on a stream: [exc, value], value
\* the content of the stream afterwards
dump(tbls, decimals) ==
    LET d == IF ~(1 <= decimals /\ decimals <= 19) THEN -1 ELSE decimals
    IN [exc |-> NoExc, value |-> _write_tdb(tbls, d)]

\* Tdb.dumps(decimals=decimals): [exc, value].  It calls
\* self.dump(stream, decimals), with three positional arguments.
dumps(tbls, decimals) ==
    IF 3 > DumpPositional
    THEN [exc |-> Exc("TypeError", "Tdb.dump() takes " \o ToString(DumpPositional)
                          \o " positional arguments but 3 were given"),
          value |-> ""]
    ELSE dump(tbls, decimals)

(***************************************************************************)
(* The reader as a step function.  A frame holds the locals of _read_tdb   *)
(* and of _read_records, the place pc the reader is at ("read_tdb",        *)
(* "read_records", or "returned" / "raised" once _read_tdb has ended) and  *)
(* the exception exc it raised.  The print of each record after            *)
(* _read_records returns (lines 126-127) changes no state and is left out. *)
(***************************************************************************)
\* _read_tdb(t) starts: lines 113-115
StartFrame(t) ==
    [pc |-> "read_tdb", exc |-> NoExc, text |-> t, tables |-> <<>>, table |-> 0,
     lino |-> 1, record |-> <<>>, old_column |-> -1, column |-> 0, columns |-> 0,
     kind |-> ""]

Raise(f, exc) == [f EXCEPT !.pc = "raised", !.exc = exc]
\* the locals of _read_records when it is not running
NoRecordsFrame(f) ==
    [f EXCEPT !.record = <<>>, !.old_column = -1, !.column = 0, !.columns = 0,
              !.kind = ""]

\* lines 122-123: text, table, lino = m; tables[table.name] = table
AfterMeta(f, m) ==
    IF m.exc # NoExc THEN Raise(f, m.exc)
    ELSE [f EXCEPT !.text = m.text, !.lino = m.lino,
                   !.tables = DictSet(@, m.table),
                   !.table = DictIndex(DictSet(f.tables, m.table), m.table.name)]

\* _read_records(text, table, lino) is entered: lines 146-149
EnterRecords(f) ==
    IF f.table = 0
    THEN Raise(f, Exc("AttributeError", "'NoneType' object has no attribute 'columns'"))
    ELSE [f EXCEPT !.pc = "read_records", !.record = <<>>, !.old_column = -1,
                   !.column = 0, !.columns = Columns(f.tables[f.table]), !.kind = ""]

\* one iteration of the loop of _read_tdb, or its return once the text is
\* exhausted
ReadTdbIter(f) ==
    IF f.text = "" THEN [f EXCEPT !.pc = "returned"]
    ELSE IF At(f.text, 0) = "\n"
    THEN [f EXCEPT !.lino = @ + 1, !.text = From(@, 1)]
    ELSE IF At(f.text, 0) = "["
    THEN AfterMeta(f, _read_meta(From(f.text, 1), f.lino))
    ELSE EnterRecords(f)

\* the rest of an iteration of _read_records once the dispatch on text[0]
\* has given d: the exception leaves, "]" returns, and a record that has
\* all its columns is appended (lines 205-207)
AfterDispatch(f, d, knd1) ==
    IF d.exc # NoExc THEN Raise([f EXCEPT !.kind = knd1], d.exc)
    ELSE IF d.ret
    THEN NoRecordsFrame([f EXCEPT !.pc = "read_tdb", !.text = d.text, !.lino = d.lino])
    ELSE IF d.column = f.columns
    THEN [f EXCEPT !.text = d.text, !.lino = d.lino, !.column = d.column,
                   !.kind = knd1, !.record = <<>>,
                   !.tables[f.table] = TableAppend(@, d.record)]
    ELSE [f EXCEPT !.text = d.text, !.lino = d.lino, !.column = d.column,
                   !.kind = knd1, !.record = <<d.record>>]

\* lines 155-157 of an iteration, f holding the record and its column
WithKind(f) ==
    IF f.column # f.old_column
    THEN IF f.column >= Len(f.tables[f.table].fields_meta)
         THEN \* table.fields_meta[column] is out of range
              Raise(f, Exc("IndexError", "list index out of range"))
         ELSE AfterDispatch(f,
                  Dispatch(At(f.text, 0), f.tables[f.table].fields_meta[f.column + 1].kind,
                           f.text, f.record[1], f.column, f.columns, f.lino),
                  f.tables[f.table].fields_meta[f.column + 1].kind)
    ELSE AfterDispatch(f,
             Dispatch(At(f.text, 0), f.kind, f.text, f.record[1], f.column, f.columns,
                      f.lino),
             f.kind)

\* one iteration of the loop of _read_records, or its return once the text
\* is exhausted
ReadRecordsIter(f) ==
    IF f.text = "" THEN NoRecordsFrame([f EXCEPT !.pc = "read_tdb"])
    ELSE IF f.record = <<>>
    THEN WithKind([f EXCEPT !.record = <<RecordClass(f.tables[f.table])>>,
                            !.old_column = -1, !.column = 0])
    ELSE WithKind(f)

\* _read_tdb(t): the frame it ends in, "returned" with its tables or "raised"
RECURSIVE RunFrame(_)
RunFrame(f) ==
    IF f.pc = "read_tdb" THEN RunFrame(ReadTdbIter(f))
    ELSE IF f.pc = "read_records" THEN RunFrame(ReadRecordsIter(f))
    ELSE f
_read_tdb(t) == RunFrame(StartFrame(t))

(***************************************************************************)
(* The actions.                                                            *)
(***************************************************************************)
Running(call) == [call |-> call, status |-> "running", exc |-> NoExc, value |-> ""]
ReturnedFrom(call, value) ==
    [call |-> call, status |-> "returned", exc |-> NoExc, value |-> value]
RaisedFrom(call, exc) == [call |-> call, status |-> "raised", exc |-> exc, value |-> ""]

Init ==
    /\ self_tables = <<>>
    /\ pc = "idle"
    /\ outcome = [call |-> "none", status |-> "none", exc |-> NoExc, value |-> ""]
    /\ nloads = 0
    /\ source = ""
    /\ text = ""
    /\ tables = <<>>
    /\ table = 0
    /\ lino = 1
    /\ record = <<>>
    /\ old_column = -1
    /\ column = 0
    /\ columns = 0
    /\ kind = ""

\* the frame the variables hold
Frame ==
    [pc |-> pc, exc |-> NoExc, text |-> text, tables |-> tables, table |-> table,
     lino |-> lino, record |-> record, old_column |-> old_column, column |-> column,
     columns |-> columns, kind |-> kind]

\* mutant of LoadsAssign: the tables read are added to those the Tdb has,
\* as self.tables.update(_read_tdb(text)) does
RECURSIVE LoadsAssignUpdate(_, _)
LoadsAssignUpdate(old, new) ==
    IF new = <<>> THEN old ELSE LoadsAssignUpdate(DictSet(old, Head(new)), Tail(new))
\* Tdb.loads, line 61: self.tables = _read_tdb(text)
LoadsAssign(old, new) == new

\* mutant of Become: the tables read before an exception are assigned to
\* self.tables as well
BecomeShowingPartial(f) ==
    /\ text' = f.text
    /\ tables' = f.tables
    /\ table' = f.table
    /\ lino' = f.lino
    /\ record' = f.record
    /\ old_column' = f.old_column
    /\ column' = f.column
    /\ columns' = f.columns
    /\ kind' = f.kind
    /\ pc' = IF f.pc \in {"returned", "raised"} THEN "idle" ELSE f.pc
    /\ outcome' = IF f.pc = "returned" THEN ReturnedFrom("loads", "")
                  ELSE IF f.pc = "raised" THEN RaisedFrom("loads", f.exc)
                  ELSE outcome
    /\ self_tables' = IF f.pc \in {"returned", "raised"}
                      THEN LoadsAssign(self_tables, f.tables)
                      ELSE self_tables
\* the variables take the frame f; when _read_tdb has returned, Tdb.loads
\* assigns self.tables, and when it has raised, the exception leaves loads
Become(f) ==
    /\ text' = f.text
    /\ tables' = f.tables
    /\ table' = f.table
    /\ lino' = f.lino
    /\ record' = f.record
    /\ old_column' = f.old_column
    /\ column' = f.column
    /\ columns' = f.columns
    /\ kind' = f.kind
    /\ pc' = IF f.pc \in {"returned", "raised"} THEN "idle" ELSE f.pc
    /\ outcome' = IF f.pc = "returned" THEN ReturnedFrom("loads", "")
                  ELSE IF f.pc = "raised" THEN RaisedFrom("loads", f.exc)
                  ELSE outcome
    /\ self_tables' = IF f.pc = "returned" THEN LoadsAssign(self_tables, f.tables)
                      ELSE self_tables

\* Tdb.loads(t) is called, the maxloads-th call at most: _read_tdb starts
Loads(t, maxloads) ==
    /\ pc = "idle"
    /\ nloads < maxloads
    /\ nloads' = nloads + 1
    /\ source' = t
    /\ outcome' = Running("loads")
    /\ text' = StartFrame(t).text
    /\ tables' = StartFrame(t).tables
    /\ table' = StartFrame(t).table
    /\ lino' = StartFrame(t).lino
    /\ record' = StartFrame(t).record
    /\ old_column' = StartFrame(t).old_column
    /\ column' = StartFrame(t).column
    /\ columns' = StartFrame(t).columns
    /\ kind' = StartFrame(t).kind
    /\ pc' = StartFrame(t).pc
    /\ UNCHANGED self_tables

\* one iteration of the loop of _read_tdb; when the text is exhausted
\* _read_tdb returns and Tdb.loads assigns self.tables
ReadTdb ==
    /\ pc = "read_tdb"
    /\ Become(ReadTdbIter(Frame))
    /\ UNCHANGED <<nloads, source>>

\* one iteration of the loop of _read_records; when the text is exhausted,
\* or at "]", it returns to _read_tdb
ReadRecords ==
    /\ pc = "read_records"
    /\ Become(ReadRecordsIter(Frame))
    /\ UNCHANGED <<nloads, source>>

\* Tdb.dumps(decimals=decimals) is called
Dumps(decimals) ==
    /\ pc = "idle"
    /\ outcome' = IF dumps(self_tables, decimals).exc # NoExc
                  THEN RaisedFrom("dumps", dumps(self_tables, decimals).exc)
                  ELSE ReturnedFrom("dumps", dumps(self_tables, decimals).value)
    /\ UNCHANGED <<self_tables, pc, nloads, source, text, tables, table, lino,
                   record, old_column, column, columns, kind>>

(***************************************************************************)
(* The input texts and the specifications.                                 *)
(***************************************************************************)
\* the concatenations of at most n chunks of pool
RECURSIVE Concats(_, _)
Concats(pool, n) ==
    IF n = 0 THEN {""}
    ELSE Concats(pool, n - 1) \cup {p \o c : p \in Concats(pool, n - 1), c \in pool}

\* the texts of test_tdb.py: test_02, test_03, test_e100, test_e105
Test02Text == "[Recs Ok bool\n%\nT f y N 1 0]"
Test03Text == "[Records AField int\n%\n2\n3\n5\n]\n"
TestE100Text == "[T A bool\n%\n-3]"
TestE105Text == "[T A bool\n%\n2]"
ExampleTexts == {Test02Text, Test03Text, TestE100Text, TestE105Text}

\* the boolean literals of the format, and a table of one bool column
\* holding one of them
TrueTokens == {"T", "t", "Y", "y", "1"}
FalseTokens == {"F", "f", "N", "n", "0"}
BoolText(tok) == "[Recs Ok bool\n%\n" \o tok \o "]"
BoolTexts == {BoolText(tok) : tok \in TrueTokens \cup FalseTokens}

\* headers (a bool column; an int and a bool column; the name A again with
\* another schema; no field) and what follows them
MaxChunks == 4
Chunks ==
    {"[A x bool%", "[B x int y bool%\n", "[A y int%", "[C%",
     "T", "f ", "2 ", "!", "]", "\n"}
Texts == ExampleTexts \cup BoolTexts \cup Concats(Chunks, MaxChunks)

Decimals == {-1, 0, 1, 19, 20}

\* db = tdb.loads(text), then db.dumps(decimals=d): a fresh Tdb loads one
\* text and, when that returned, is dumped
Next ==
    \/ nloads = 0 /\ \E t \in Texts : Loads(t, 1)
    \/ ReadTdb
    \/ ReadRecords
    \/ outcome.status = "returned" /\ \E d \in Decimals : Dumps(d)

Spec == Init /\ [][Next]_vars

\* the kinds the reader knows, and one it does not
KindNames == {"bool", "bytes", "date", "datetime", "int", "real", "str"}
HeaderKinds == KindNames \cup {"foo"}
\* a token of each lexical class: sentinel, bool, bytes (good and odd), str,
\* negative and positive numbers, a real, a date, a datetime, the close
MaxTokens == 2
Tokens ==
    {"!", "T", "n", "(0a)", "(0)", "<a&lt;>", "-3 ", "2 ", "2.5 ", "2022-01-05 ",
     "2022-01-05T10:20 ", "]"}
\* a table of two columns of one kind, followed by at most MaxTokens tokens
KindTexts ==
    {"[K v " \o k \o " w " \o k \o "%" \o body :
        k \in HeaderKinds, body \in Concats(Tokens, MaxTokens)}

NextKinds ==
    \/ nloads = 0 /\ \E t \in KindTexts : Loads(t, 1)
    \/ ReadTdb
    \/ ReadRecords
    \/ outcome.status = "returned" /\ \E d \in Decimals : Dumps(d)

SpecKinds == Init /\ [][NextKinds]_vars

\* one Tdb object loads up to MaxLoads texts, one after the other, and is
\* dumped at any time it is not loading
MaxLoads == 2
ReloadTexts ==
    {"", "[A x bool%T f]", "[B y int%2 ]\n", "[A y int%3 ][B x bool%f]",
     "[A x bool%T !", "[B y int%2 [A x bool%", "T", "[A x bool%T"}

NextReload ==
    \/ \E t \in ReloadTexts : Loads(t, MaxLoads)
    \/ ReadTdb
    \/ ReadRecords
    \/ \E d \in Decimals : Dumps(d)

SpecReload == Init /\ [][NextReload]_vars

\* one header at the start of the text: at most MaxWords words and line
\* ends, with its "%" or without, followed by a line end or not, then values
MaxWords == 4
HeaderWords == {"A ", "x ", "bool ", "int ", "\n"}
HeaderEnds == {"", "%", "%\n"}
HeaderBodies == {"", "T]", "2 ]", "\n!"}
HeaderTexts ==
    {"[" \o h \o e \o b :
        h \in Concats(HeaderWords, MaxWords), e \in HeaderEnds, b \in HeaderBodies}

NextHeaders ==
    \/ nloads = 0 /\ \E t \in HeaderTexts : Loads(t, 1)
    \/ ReadTdb
    \/ ReadRecords
    \/ outcome.status = "returned" /\ \E d \in Decimals : Dumps(d)

SpecHeaders == Init /\ [][NextHeaders]_vars

\* a header of two columns of one kind and at most MaxTokens values, line
\* ends among them
LiveTokens == {"!", "T", "(0a)", "<a>", "-3 ", "2.5 ", "2022-01-05 ", "]", "\n"}
LiveTexts ==
    {"[K v " \o k \o "\nw " \o k \o "%" \o body :
        k \in HeaderKinds, body \in Concats(LiveTokens, MaxTokens)}

\* one iteration of the loop the frame f is in
StepFrame(f) == IF f.pc = "read_tdb" THEN ReadTdbIter(f) ELSE ReadRecordsIter(f)
\* the frames _read_tdb goes through from f on, n iterations at most
RECURSIVE FramesFrom(_, _)
FramesFrom(f, n) ==
    IF n = 0 \/ f.pc \notin {"read_tdb", "read_records"} THEN {}
    ELSE {f} \cup FramesFrom(StepFrame(f), n - 1)
\* the iterations of the loads of each text of LiveTexts, as a table from
\* the frame before to the frame after: a text of n characters takes no
\* more than 3 * n + 2 of them
StepOf ==
    [t \in LiveTexts |->
        [f \in FramesFrom(StartFrame(t), 3 * Len(t) + 2) |-> StepFrame(f)]]
\* the next iteration of the loads that is running: ReadTdb \/ ReadRecords,
\* with the iteration looked up in StepOf
Run ==
    /\ pc \in {"read_tdb", "read_records"}
    /\ \E f \in {StepOf[source][Frame]} : Become(f)
    /\ UNCHANGED <<nloads, source>>

\* a fresh Tdb loads one text of LiveTexts, and a loads that has started
\* runs on: Python executes the iterations of the loops of _read_tdb and
\* _read_records one after the other until the call ends, so the next
\* iteration of a running loads is always taken
NextLive ==
    \/ nloads = 0 /\ \E t \in LiveTexts : Loads(t, 1)
    \/ ReadTdb
    \/ ReadRecords
    \/ outcome.status = "returned" /\ \E d \in Decimals : Dumps(d)

SpecLive == Init /\ [][NextLive]_vars /\ WF_vars(Run)

(***************************************************************************)
(* The claims.                                                             *)
(***************************************************************************)
\* the last call was Tdb.loads and it returned / raised
Loaded == pc = "idle" /\ outcome.call = "loads" /\ outcome.status = "returned"
LoadRaised == pc = "idle" /\ outcome.call = "loads" /\ outcome.status = "raised"
\* the last call was Tdb.dumps
Dumped == pc = "idle" /\ outcome.call = "dumps"
\* what follows the line number and "#" in the message of an Error
MessageText(msg) == From(msg, StrFind(msg, "#") + 1)
StartsWith(str, prefix) == Len(str) >= Len(prefix) /\ Upto(str, Len(prefix)) = prefix

\* C1: round trip.  dumps of a Tdb that loads filled returns a text that
\* loads reads back into the same tables, table for table, field for field
\* and record for record; and it returns the text of test_03 unchanged.
C1_RoundTrip ==
    Dumped =>
        /\ outcome.status = "returned"
        /\ _read_tdb(outcome.value).pc = "returned"
        /\ _read_tdb(outcome.value).tables = self_tables
        /\ source = Test03Text => outcome.value = Test03Text

\* C2: the writer never fails.  dumps of a Tdb that a successful loads
\* filled returns a string, whatever decimals is, and raises nothing.
C2_DumpsNeverFails == Dumped => outcome.status = "returned"

\* C3: single error kind.  loads returns or raises tdb.Error; no exception
\* of another type leaves it.
C3_SingleErrorKind == LoadRaised => outcome.exc.type = "Error"

\* C4: every tdb.Error of loads has a message that begins with "E", three
\* digits and "#"; the digits are 100 for the text of test_e100 and 105 for
\* the text of test_e105.
HasErrorCode(msg) ==
    /\ At(msg, 0) = "E"
    /\ \A i \in 1..3 : At(msg, i) \in Digits
    /\ At(msg, 4) = "#"
C4_ErrorCode ==
    (LoadRaised /\ outcome.exc.type = "Error") =>
        /\ HasErrorCode(outcome.exc.msg)
        /\ source = TestE100Text => Slice(outcome.exc.msg, 1, 4) = "100"
        /\ source = TestE105Text => Slice(outcome.exc.msg, 1, 4) = "105"

\* C5: boolean literals.  In a table of one bool column each of T t Y y 1
\* is stored as one record holding true and each of F f N n 0 as one record
\* holding false, in the order of the text; the text of test_02 loads into
\* the six records true, false, true, false, true, false.
BoolTable(values) ==
    [name |-> "Recs", fields_meta |-> <<MetaField("Ok", "bool")>>,
     records |-> [i \in 1..Len(values) |-> <<Val("bool", values[i])>>]]
C5_BoolLiterals ==
    (pc = "idle" /\ outcome.call = "loads") =>
        /\ \A tok \in TrueTokens : source = BoolText(tok) =>
               Loaded /\ self_tables = <<BoolTable(<<TRUE>>)>>
        /\ \A tok \in FalseTokens : source = BoolText(tok) =>
               Loaded /\ self_tables = <<BoolTable(<<FALSE>>)>>
        /\ source = Test02Text =>
               /\ Loaded
               /\ self_tables = <<BoolTable(<<TRUE, FALSE, TRUE, FALSE, TRUE, FALSE>>)>>

\* the column of the record in progress at the start of an iteration of
\* _read_records: the values the record has so far
ValuesSoFar == IF record = <<>> THEN 0 ELSE column
\* _read_records is about to read the character c
AtChar(c) == pc = "read_records" /\ text # "" /\ At(text, 0) = c
\* every record of every table of d has one value for each column, none None
RecordsComplete(d) ==
    \A i \in 1..Len(d) : \A j \in 1..Len(d[i].records) :
        /\ Len(d[i].records[j]) = Columns(d[i])
        /\ \A c \in 1..Columns(d[i]) : d[i].records[j][c].k # "None"

\* C6: column-count enforcement.  In a table of N >= 1 columns, "]" met
\* after k values of the current record, 0 < k < N, raises the
\* incomplete-record Error; "]" met after a whole number of records is
\* accepted, _read_records returns with the records of the table as they
\* are, and every record of a table has its N values.
C6_ClosePartial ==
    (AtChar("]") /\ 0 < ValuesSoFar /\ ValuesSoFar < columns) =>
        /\ LoadRaised'
        /\ outcome'.exc.type = "Error"
        /\ StartsWith(MessageText(outcome'.exc.msg), "incomplete record")
        /\ UNCHANGED self_tables
C6_CloseWhole ==
    (AtChar("]") /\ columns >= 1 /\ ValuesSoFar = 0) =>
        /\ pc' = "read_tdb"
        /\ outcome' = outcome
        /\ tables' = tables
C6_ColumnCount ==
    /\ [](RecordsComplete(tables) /\ RecordsComplete(self_tables))
    /\ [][C6_ClosePartial /\ C6_CloseWhole]_vars
\* a load has failed at "]" with one of the two values of a record read
C6_Witness ==
    /\ LoadRaised
    /\ StartsWith(MessageText(outcome.exc.msg), "incomplete record")
    /\ columns = 2
    /\ column = 1

\* every value stored in a record of a table of d is of the kind of its
\* column (the sentinel of a kind is a value of that kind)
ValuesOfKind(d) ==
    \A i \in 1..Len(d) : \A j \in 1..Len(d[i].records) :
        \A c \in 1..Len(d[i].records[j]) :
            d[i].records[j][c].k = d[i].fields_meta[c].kind

\* C7: type enforcement.  A value is stored in a column only when the class
\* of its token matches the kind of the column, any other token raising
\* tdb.Error; so every value a table holds, while it is read and after a
\* successful loads, is of the kind of its column or that kind's sentinel.
C7_TypeEnforcement ==
    /\ ValuesOfKind(tables)
    /\ ValuesOfKind(self_tables)
    /\ record # <<>> =>
           \A c \in 1..Len(record[1]) :
               record[1][c].k \in {"None", tables[table].fields_meta[c].kind}

\* the sentinel constant of a kind
SentinelOf(k) ==
    CASE k = "bytes" -> BYTES_SENTINAL
      [] k = "date" -> DATE_SENTINAL
      [] k = "datetime" -> DATETIME_SENTINAL
      [] k = "int" -> INT_SENTINAL
      [] k = "real" -> REAL_SENTINAL
      [] k = "str" -> STR_SENTINAL
\* the kind of the column the next value goes to
CurKind == tables[table].fields_meta[ValuesSoFar + 1].kind
\* every value of a bool column of d is true or false
NoBoolSentinel(d) ==
    \A i \in 1..Len(d) : \A j \in 1..Len(d[i].records) :
        \A c \in 1..Len(d[i].records[j]) :
            d[i].fields_meta[c].kind = "bool" =>
                /\ d[i].records[j][c].k = "bool"
                /\ d[i].records[j][c].v \in BOOLEAN

\* C8: sentinel rule.  "!" in a column of kind bytes, date, datetime, int,
\* real or str stores the sentinel constant of that kind in the column and
\* moves to the next column (the record going to the table when that was
\* its last column); "!" in a bool column raises tdb.Error; no bool column
\* ever holds a sentinel.
C8_Store ==
    (AtChar("!") /\ ValuesSoFar < columns /\ CurKind \in KindNames \ {"bool"}) =>
        /\ pc' = "read_records"
        /\ outcome' = outcome
        /\ text' = From(text, 1)
        /\ column' = ValuesSoFar + 1
        /\ IF ValuesSoFar + 1 = columns
           THEN /\ record' = <<>>
                /\ Len(tables'[table].records) = Len(tables[table].records) + 1
                /\ tables'[table].records[Len(tables'[table].records)][ValuesSoFar + 1]
                       = SentinelOf(CurKind)
           ELSE /\ record'[1][ValuesSoFar + 1] = SentinelOf(CurKind)
                /\ tables' = tables
C8_BoolRaises ==
    (AtChar("!") /\ ValuesSoFar < columns /\ CurKind = "bool") =>
        /\ LoadRaised'
        /\ outcome'.exc.type = "Error"
        /\ UNCHANGED self_tables
C8_SentinelRule ==
    /\ [](NoBoolSentinel(tables) /\ NoBoolSentinel(self_tables))
    /\ [][C8_Store /\ C8_BoolRaises]_vars
\* a table of two int columns has been loaded with a record of two sentinels
C8_Witness ==
    /\ Loaded
    /\ Len(self_tables) = 1
    /\ self_tables[1].fields_meta[1].kind = "int"
    /\ self_tables[1].records = <<<<INT_SENTINAL, INT_SENTINAL>>>>

\* C9: a fresh database per load.  Whatever the Tdb object loaded before,
\* after a successful loads(text) its tables are those _read_tdb makes of
\* that text alone.
C9_FreshPerLoad ==
    Loaded =>
        /\ _read_tdb(source).pc = "returned"
        /\ self_tables = _read_tdb(source).tables
\* the second load of the object has returned with the one table B of its text
C9_Witness ==
    /\ Loaded
    /\ nloads = 2
    /\ source = "[B y int%2 ]\n"
    /\ Len(self_tables) = 1

\* the keys of the dict d, in its order
Names(d) == [i \in 1..Len(d) |-> d[i].name]
\* _read_tdb is about to read a header that has its "%"
AtHeader ==
    pc = "read_tdb" /\ text # "" /\ At(text, 0) = "[" /\ StrFind(text, "%") >= 0
\* the first word of the header _read_tdb is about to read (None if none)
HeaderName ==
    LET words == StrSplit(Slice(text, 1, StrFind(text, "%")))
    IN IF words = <<>> THEN None ELSE words[1]

\* C10: table order and ownership.  A header whose name is new puts its
\* table last and a header whose name is known leaves the order as it is, so
\* the tables are in the order of their first headers; the table of the
\* latest header is the current one; a record goes to the end of the
\* current table and to no other; loads hands over the tables so built.
C10_Header ==
    AtHeader =>
        /\ Names(tables') = IF \E i \in 1..Len(tables) : tables[i].name = HeaderName
                            THEN Names(tables)
                            ELSE Append(Names(tables), HeaderName)
        /\ table' \in 1..Len(tables')
        /\ tables'[table'].name = HeaderName
        /\ tables'[table'].records = <<>>
        /\ \A i \in 1..Len(tables) : tables[i].name # HeaderName => tables'[i] = tables[i]
C10_Records ==
    (pc \in {"read_tdb", "read_records"} /\ ~AtHeader) =>
        /\ table' = table
        /\ Names(tables') = Names(tables)
        /\ \A i \in 1..Len(tables) :
               \/ tables'[i] = tables[i]
               \/ /\ i = table
                  /\ tables'[i].fields_meta = tables[i].fields_meta
                  /\ Len(tables'[i].records) = Len(tables[i].records) + 1
                  /\ SubSeq(tables'[i].records, 1, Len(tables[i].records))
                         = tables[i].records
C10_Return == (pc = "read_tdb" /\ Loaded') => self_tables' = tables
C10_TableOrder == [][C10_Header /\ C10_Records /\ C10_Return]_vars
\* tables A and B have been loaded, in the order of the text, A with a record
C10_Witness ==
    /\ Loaded
    /\ Names(self_tables) = <<"A", "B">>
    /\ Len(self_tables[1].records) = 1

\* C11: no table in scope.  When the first character that is neither a
\* newline nor "[" is met before any header has been read, loads raises a
\* tdb.Error that says no table is in scope; _read_records never runs
\* without a table.
C11_NoTableInScope ==
    /\ pc = "read_records" => table # 0
    /\ (LoadRaised /\ table = 0 /\ text # "" /\ At(text, 0) \notin {"\n", "["}) =>
           /\ outcome.exc.type = "Error"
           /\ StrFind(outcome.exc.msg, "no table in scope") >= 0

\* the index of the last character c of s, -1 when s has none
StrRFind(s, c) ==
    IF \E i \in 0..(Len(s) - 1) : At(s, i) = c
    THEN CHOOSE i \in 0..(Len(s) - 1) :
             At(s, i) = c /\ \A j \in (i + 1)..(Len(s) - 1) : At(s, j) # c
    ELSE -1
\* the last header of s has no "]" after it (s has no "[" or "]" in a value)
Unterminated(s) == StrRFind(s, "[") >= 0 /\ StrRFind(s, "]") < StrRFind(s, "[")

\* C12: unterminated table.  When the text ends after a header with no "]"
\* closing that table, whether the last record is whole, partial or absent,
\* loads raises tdb.Error and returns nothing.
C12_UnterminatedTable ==
    (pc = "idle" /\ outcome.call = "loads" /\ Unterminated(source)) =>
        LoadRaised /\ outcome.exc.type = "Error"

\* every field of every table of d is of one of the seven kinds
KindsKnown(d) ==
    \A i \in 1..Len(d) : \A c \in 1..Len(d[i].fields_meta) :
        d[i].fields_meta[c].kind \in KindNames

\* C13: kind validation.  A header with a kind that is not one of bool,
\* bytes, date, datetime, int, real, str makes loads raise tdb.Error, so no
\* table, while it is read or after a successful loads, has a field of
\* another kind.
C13_KindValidation == KindsKnown(tables) /\ KindsKnown(self_tables)

\* the words of the header _read_tdb is about to read, when it has its "%"
WordsOfHeader == StrSplit(Slice(text, 1, StrFind(text, "%")))
\* _read_tdb is about to read a header: the text is at its "["
AtBracket == pc = "read_tdb" /\ text # "" /\ At(text, 0) = "["

\* the header has a last field name with no kind: the table name and an odd
\* number of words
UnpairedHeader == Len(WordsOfHeader) > 0 /\ Len(WordsOfHeader) % 2 = 0

\* C14: header pairing.  A header whose words after the table name do not
\* pair up (a last field name with no kind) makes loads raise tdb.Error, and
\* so does a header with no "%" before the end of the text; a header that is
\* read gives a table with as many columns as the header has field names.
C14_Malformed ==
    (AtBracket /\ (StrFind(text, "%") < 0 \/ UnpairedHeader)) =>
        LoadRaised' /\ outcome'.exc.type = "Error"
C14_Columns ==
    (AtBracket /\ pc' = "read_tdb") =>
        Columns(tables'[table']) = Len(WordsOfHeader) \div 2
C14_HeaderPairing == [][C14_Malformed /\ C14_Columns]_vars

\* what loads has consumed of its text so far
Consumed == Upto(source, Len(source) - Len(text))
\* the line of the character the reader is at: 1 plus the line ends consumed
LineOfText == 1 + StrCount(Consumed, "\n")

\* C15: line counter accuracy.  Throughout a loads the line counter is 1
\* plus the number of line ends consumed so far, so the line number of a
\* tdb.Error is the line of the character it was raised at.
C15_LineCounter ==
    /\ pc \in {"read_tdb", "read_records"} => lino = LineOfText
    /\ (LoadRaised /\ outcome.exc.type = "Error") =>
           StartsWith(outcome.exc.msg, ToString(LineOfText) \o "#")

\* the record in progress has its first column values, in column order, and
\* no other
AssignedInOrder ==
    record # <<>> =>
        /\ Len(record[1]) = columns
        /\ column < columns
        /\ \A c \in 1..columns : (record[1][c].k # "None") <=> (c <= column)
\* the record the step appends to the current table is the record in
\* progress with the value of the last column added
AppendsWholeRecord ==
    /\ record' = <<>>
    /\ Len(tables'[table].records) = Len(tables[table].records) + 1
    /\ \A c \in 1..ValuesSoFar :
           tables'[table].records[Len(tables'[table].records)][c] = record[1][c]

\* C16: record width.  In every state of the scanner the column index is
\* between 0 and the column count of the table; the values of a record are
\* assigned in column order; a record is appended to the table exactly when
\* the last of its columns has been assigned, so every record of a table
\* has a value in every column.
C16_Scanner ==
    pc = "read_records" =>
        /\ table \in 1..Len(tables)
        /\ columns = Columns(tables[table])
        /\ 0 <= column /\ column <= columns
        /\ AssignedInOrder
C16_Append ==
    pc = "read_records" =>
        /\ tables' # tables <=>
               (pc' = "read_records" /\ ValuesSoFar + 1 = columns /\ column' = columns)
        /\ tables' # tables => AppendsWholeRecord
        /\ (pc' = "read_records" /\ tables' = tables /\ record # <<>>) =>
               (record' # <<>> /\ column' \in {column, column + 1})
C16_RecordWidth ==
    /\ [](C16_Scanner /\ RecordsComplete(tables))
    /\ [][C16_Append]_vars
\* a record of two values has just been appended to its table
C16_Witness ==
    /\ pc = "read_records"
    /\ columns = 2
    /\ column = 2
    /\ record = <<>>
    /\ Len(tables[table].records) = 1

\* the schema the header _read_tdb is about to read declares: its words
\* after the table name, in pairs of field name and kind
SchemaOfHeader ==
    [c \in 1..((Len(WordsOfHeader) - 1) \div 2) |->
        MetaField(WordsOfHeader[2 * c], WordsOfHeader[2 * c + 1])]
\* no two tables of d have the same name
OneTablePerName(d) ==
    \A i \in 1..Len(d) : \A j \in 1..Len(d) : d[i].name = d[j].name => i = j

\* C17: duplicate table name.  A header with the name of a table read
\* before is accepted; the tables keep one table under that name, with the
\* schema of the later header and none of the records read under the
\* earlier one (the records that follow go to it, by C10).
C17_Redeclared ==
    (AtHeader /\ \E i \in 1..Len(tables) : tables[i].name = HeaderName) =>
        /\ pc' = "read_tdb"
        /\ Len(tables') = Len(tables)
        /\ tables'[table'] = [name |-> HeaderName, fields_meta |-> SchemaOfHeader,
                              records |-> <<>>]
C17_DuplicateName ==
    /\ [](OneTablePerName(tables) /\ OneTablePerName(self_tables))
    /\ [][C17_Redeclared]_vars
\* a text with two headers A, the first followed by a record, has been
\* loaded: the one table A has the schema of the second and no record
C17_Witness ==
    /\ Loaded
    /\ source = "[A x bool%T][A y int%"
    /\ self_tables = <<[name |-> "A", fields_meta |-> <<MetaField("y", "int")>>,
                        records |-> <<>>]>>

\* C18: a failed load leaves the Tdb as it was.  No step of a loads that is
\* still running, nor the step in which it raises, changes self.tables: when
\* loads raises, the tables of the Tdb are those it had before the call,
\* and nothing read before the error shows in them.
C18_FailedLoad ==
    [][(outcome'.call = "loads" /\ outcome'.status \in {"running", "raised"}) =>
           self_tables' = self_tables]_vars
\* the second loads of a Tdb has raised after reading a table, and the Tdb
\* still has the tables of the first, which are not those read
C18_Witness ==
    /\ LoadRaised
    /\ nloads = 2
    /\ self_tables # <<>>
    /\ tables # <<>>
    /\ tables # self_tables
    /\ self_tables = _read_tdb("[A x bool%T f]").tables

\* the "]" of the current table has been consumed and no header since
Closed == StrRFind(Consumed, "]") > StrRFind(Consumed, "[")

\* C19: closed tables are frozen.  Once the "]" of a table has been
\* consumed, no step changes the records of that table (nor of any other)
\* until the next header: the values that follow "]" are not appended to
\* the closed table.
C19_ClosedFrozen ==
    [][(pc \in {"read_tdb", "read_records"} /\ Closed /\ ~AtBracket) =>
           tables' = tables]_vars

\* C20: termination.  Every iteration of the loop of _read_records consumes
\* a character of the text or raises; every iteration of the loop of
\* _read_tdb that reads a line end or a header consumes a character or
\* raises, and the one that calls _read_records hands it a text that is not
\* empty, of which its first iteration consumes a character or raises; no
\* iteration makes the text longer.  So a loads that has started ends: it
\* returns or it raises (Run, the step the fairness of SpecLive is about,
\* is the step ReadTdb \/ ReadRecords).
C20_Consumes ==
    /\ (pc = "read_records" /\ text # "") =>
           (LoadRaised' \/ Len(text') < Len(text))
    /\ (pc = "read_tdb" /\ text # "") =>
           \/ LoadRaised'
           \/ pc' = "read_tdb" /\ Len(text') < Len(text)
           \/ pc' = "read_records" /\ text' = text
    /\ pc \in {"read_tdb", "read_records"} => Len(text') <= Len(text)
C20_Termination ==
    /\ [][C20_Consumes]_vars
    /\ [][Run <=> (ReadTdb \/ ReadRecords)]_vars
    /\ (outcome.status = "running") ~> (Loaded \/ LoadRaised)
\* a loads of a header and two numbers has read all of its text and returned
C20_Witness ==
    /\ Loaded
    /\ source = "[K v real\nw real%2.5 -3 "
    /\ text = ""
    /\ Len(self_tables[1].records) = 1

====
